---- MODULE Spec2Model ----
(***************************************************************************)
(* Directory tree simulator (src/src/lib.rs): DEnt, DTree and OsState.     *)
(*                                                                         *)
(* A string (&str / String) is a sequence of one-character strings, so     *)
(* that contains('/') and the concatenations of DEnt::paths / DTree::paths *)
(* are computed, not assumed.  A DTree is the sequence of its children     *)
(* (Vec<DEnt>), a DEnt is a record [name, subdir].                         *)
(***************************************************************************)
EXTENDS Integers, Sequences, FiniteSets, TLC

VARIABLES dtree, cwd, last

vars == <<dtree, cwd, last>>

\* ------------------------------------------------------------------ bounds
MaxNodes == 3        \* directory entries in the whole tree
MaxPathLen == 2      \* components of a path handed to chdir / with_subdir
MaxChain == 5        \* directories made by the mkdir/chdir chain scenario

\* ------------------------------------------------------------------ inputs
Slash == "/"

\* component names offered by callers: two legal ones and one with a separator
NameSet == { <<"a">>, <<"b">>, <<"/", "a">> }

RECURSIVE SeqsUpTo(_, _)
SeqsUpTo(S, n) ==
    IF n = 0 THEN { <<>> }
    ELSE LET shorter == SeqsUpTo(S, n - 1)
         IN  shorter \cup { Append(p, x) : p \in { q \in shorter : Len(q) = n - 1 }, x \in S }

PathSet == SeqsUpTo(NameSet, MaxPathLen)

\* ------------------------------------------------------------- DirError
Str_empty == <<>>
Str_empty_path == <<"e", "m", "p", "t", "y", " ", "p", "a", "t", "h">>
Str_chdir == <<"c", "h", "d", "i", "r">>

OkR == [kind |-> "Ok", arg |-> <<>>]
SlashInName(name) == [kind |-> "SlashInName", arg |-> name]
DirExists(name) == [kind |-> "DirExists", arg |-> name]
InvalidChild(name) == [kind |-> "InvalidChild", arg |-> name]
\* Result::unwrap on an Err: the thread panics
Panic == [kind |-> "panic", arg |-> <<>>]

\* ------------------------------------------------------------- helpers
contains(name, c) == \E i \in 1..Len(name) : name[i] = c

Reverse(s) == [i \in 1..Len(s) |-> s[Len(s) + 1 - i]]

MinOf(S) == CHOOSE i \in S : \A j \in S : i <= j

\* index of the first child called name, 0 when the for loop finds none
FirstChild(t, name) ==
    LET idx == { i \in 1..Len(t) : t[i].name = name }
    IN  IF idx = {} THEN 0 ELSE MinOf(idx)

RECURSIVE NodeCount(_)
RECURSIVE NodeCountFrom(_, _)
NodeCountFrom(t, i) ==
    IF i > Len(t) THEN 0 ELSE 1 + NodeCount(t[i].subdir) + NodeCountFrom(t, i + 1)
NodeCount(t) == NodeCountFrom(t, 1)

\* ------------------------------------------------------------- DEnt
DTree_new == <<>>

DEnt_new(name) ==
    IF contains(name, Slash)
    THEN [res |-> SlashInName(name), val |-> <<>>]
    ELSE [res |-> OkR, val |-> [name |-> name, subdir |-> DTree_new]]

PushPrefixed(prefix, ys) == [k \in 1..Len(ys) |-> prefix \o ys[k]]

RECURSIVE DEnt_paths(_)
RECURSIVE DEnt_paths_loop(_, _)
\* the for loop of DEnt::paths over self.subdir.children, from child i on
DEnt_paths_loop(e, i) ==
    IF i > Len(e.subdir) THEN <<>>
    ELSE PushPrefixed(e.name \o <<Slash>>, DEnt_paths(e.subdir[i]))
            \o DEnt_paths_loop(e, i + 1)

DEnt_paths(e) ==
    IF e.subdir # <<>>
    THEN DEnt_paths_loop(e, 1)
    ELSE << e.name \o <<Slash>> >>

\* ------------------------------------------------------------- DTree
\* mkdir that inserts the new entry before the existing ones
DTree_mkdir_front(t, name) ==
    IF contains(name, Slash)
    THEN [res |-> SlashInName(name), tree |-> t]
    ELSE IF \E i \in 1..Len(t) : t[i].name = name
    THEN [res |-> DirExists(name), tree |-> t]
    ELSE [res |-> OkR, tree |-> <<DEnt_new(name).val>> \o t]

\* mkdir that does not look for an existing entry of that name
DTree_mkdir_dup(t, name) ==
    IF contains(name, Slash)
    THEN [res |-> SlashInName(name), tree |-> t]
    ELSE [res |-> OkR, tree |-> Append(t, DEnt_new(name).val)]

DTree_mkdir(t, name) ==
    IF contains(name, Slash)
    THEN [res |-> SlashInName(name), tree |-> t]
    ELSE IF \E i \in 1..Len(t) : t[i].name = name
    THEN [res |-> DirExists(name), tree |-> t]
    ELSE [res |-> OkR, tree |-> Append(t, DEnt_new(name).val)]

\* subdir: path is the reversed vector, consumed with pop() from its end.
\* On success node is the tree the visitor f is applied to.
RECURSIVE subdir(_, _)
subdir(t, path) ==
    IF path = <<>>
    THEN [res |-> OkR, node |-> t]
    ELSE LET name == path[Len(path)]
             rest == SubSeq(path, 1, Len(path) - 1)
             i    == FirstChild(t, name)
         IN  IF i # 0
             THEN subdir(t[i].subdir, rest)
             ELSE [res |-> InvalidChild(name), node |-> <<>>]

\* with_subdir that forgets to reverse the path it hands to subdir
with_subdir_norev(t, path) ==
    IF path = <<>>
    THEN [res |-> InvalidChild(Str_empty), node |-> <<>>]
    ELSE subdir(t, path)

\* with_subdir that hands an empty path straight to subdir
with_subdir_noguard(t, path) == subdir(t, Reverse(path))

with_subdir(t, path) ==
    IF path = <<>>
    THEN [res |-> InvalidChild(Str_empty), node |-> <<>>]
    ELSE subdir(t, Reverse(path))

RECURSIVE subdir_mut(_, _, _)
\* subdir_mut that keeps only the entry it descended into
subdir_mut_clobber(t, path, name) ==
    IF path = <<>>
    THEN LET m == DTree_mkdir(t, name)
         IN  [res |-> OkR, r |-> m.res, tree |-> m.tree]
    ELSE LET cname == path[Len(path)]
             rest  == SubSeq(path, 1, Len(path) - 1)
             i     == FirstChild(t, cname)
         IN  IF i # 0
             THEN LET s == subdir_mut(t[i].subdir, rest, name)
                  IN  [res |-> s.res, r |-> s.r,
                       tree |-> << [t[i] EXCEPT !.subdir = s.tree] >>]
             ELSE [res |-> InvalidChild(cname), r |-> OkR, tree |-> t]

\* subdir_mut with the visitor |d| d.mkdir(name): tree is self after the
\* call, r is what the visitor returned (mkdir's Result).
subdir_mut(t, path, name) ==
    IF path = <<>>
    THEN LET m == DTree_mkdir(t, name)
         IN  [res |-> OkR, r |-> m.res, tree |-> m.tree]
    ELSE LET cname == path[Len(path)]
             rest  == SubSeq(path, 1, Len(path) - 1)
             i     == FirstChild(t, cname)
         IN  IF i # 0
             THEN LET s == subdir_mut(t[i].subdir, rest, name)
                  IN  [res |-> s.res, r |-> s.r,
                       tree |-> [t EXCEPT ![i].subdir = s.tree]]
             ELSE [res |-> InvalidChild(cname), r |-> OkR, tree |-> t]

with_subdir_mut(t, path, name) ==
    IF path = <<>>
    THEN [res |-> InvalidChild(Str_empty_path), r |-> OkR, tree |-> t]
    ELSE subdir_mut(t, Reverse(path), name)

RECURSIVE DTree_paths_loop(_, _)
DTree_paths_loop(t, i) ==
    IF i > Len(t) THEN <<>>
    ELSE PushPrefixed(<<Slash>>, DEnt_paths(t[i])) \o DTree_paths_loop(t, i + 1)

DTree_paths(t) == DTree_paths_loop(t, 1)

\* ------------------------------------------------------------- OsState
\* each operation yields the Result, the state after it and, for paths,
\* the returned vector

\* chdir that validates only the first component of path
OsState_chdir_firstonly(tr, cw, path) ==
    IF path = <<>>
    THEN [res |-> OkR, cwd |-> <<>>]
    ELSE LET d == subdir(tr, Reverse(cw))
         IN  IF d.res.kind # "Ok"
             THEN [res |-> Panic, cwd |-> cw]
             ELSE IF with_subdir(d.node, <<path[1]>>).res.kind = "Ok"
             THEN [res |-> OkR, cwd |-> cw \o path]
             ELSE [res |-> InvalidChild(Str_chdir), cwd |-> cw]

\* chdir that falls back to the root when the destination does not resolve
OsState_chdir_failreset(tr, cw, path) ==
    IF path = <<>>
    THEN [res |-> OkR, cwd |-> <<>>]
    ELSE LET d == subdir(tr, Reverse(cw))
         IN  IF d.res.kind # "Ok"
             THEN [res |-> Panic, cwd |-> cw]
             ELSE IF with_subdir(d.node, path).res.kind = "Ok"
             THEN [res |-> OkR, cwd |-> cw \o path]
             ELSE [res |-> InvalidChild(Str_chdir), cwd |-> <<>>]

\* chdir that resolves path from the root instead of from cwd
OsState_chdir_absolute(tr, cw, path) ==
    IF path = <<>>
    THEN [res |-> OkR, cwd |-> <<>>]
    ELSE IF with_subdir(tr, path).res.kind = "Ok"
    THEN [res |-> OkR, cwd |-> path]
    ELSE [res |-> InvalidChild(Str_chdir), cwd |-> cw]

\* chdir that validates an empty path like any other instead of clearing cwd
OsState_chdir_noreset(tr, cw, path) ==
    LET d == subdir(tr, Reverse(cw))
    IN  IF d.res.kind # "Ok"
        THEN [res |-> Panic, cwd |-> cw]
        ELSE IF with_subdir(d.node, path).res.kind = "Ok"
        THEN [res |-> OkR, cwd |-> cw \o path]
        ELSE [res |-> InvalidChild(Str_chdir), cwd |-> cw]

\* chdir that commits the components it could descend into before failing
OsState_chdir_partial(tr, cw, path) ==
    IF path = <<>>
    THEN [res |-> OkR, cwd |-> <<>>]
    ELSE LET d == subdir(tr, Reverse(cw))
         IN  IF d.res.kind # "Ok"
             THEN [res |-> Panic, cwd |-> cw]
             ELSE IF with_subdir(d.node, path).res.kind = "Ok"
             THEN [res |-> OkR, cwd |-> cw \o path]
             ELSE LET ks == { k \in 0..Len(path) :
                                subdir(d.node, Reverse(SubSeq(path, 1, k))).res.kind = "Ok" }
                      k  == CHOOSE x \in ks : \A y \in ks : y <= x
                  IN  [res |-> InvalidChild(Str_chdir), cwd |-> cw \o SubSeq(path, 1, k)]

\* chdir that extends cwd without validating the destination
OsState_chdir_unchecked(tr, cw, path) ==
    IF path = <<>>
    THEN [res |-> OkR, cwd |-> <<>>]
    ELSE [res |-> OkR, cwd |-> cw \o path]

OsState_chdir(tr, cw, path) ==
    IF path = <<>>
    THEN [res |-> OkR, cwd |-> <<>>]
    ELSE LET d == subdir(tr, Reverse(cw))
         IN  IF d.res.kind # "Ok"
             THEN [res |-> Panic, cwd |-> cw]
             ELSE IF with_subdir(d.node, path).res.kind = "Ok"
             THEN [res |-> OkR, cwd |-> cw \o path]
             ELSE [res |-> InvalidChild(Str_chdir), cwd |-> cw]

\* mkdir that leaves the separator check to DTree::mkdir
OsState_mkdir_noslash(tr, cw, name) ==
    IF cw = <<>>
    THEN DTree_mkdir(tr, name)
    ELSE LET m == subdir_mut(tr, Reverse(cw), name)
         IN  IF m.res.kind # "Ok" THEN [res |-> m.res, tree |-> tr]
             ELSE IF m.r.kind # "Ok" THEN [res |-> Panic, tree |-> tr]
             ELSE [res |-> OkR, tree |-> m.tree]

\* mkdir that ignores cwd and always creates in the root
OsState_mkdir_atroot(tr, cw, name) ==
    IF contains(name, Slash)
    THEN [res |-> SlashInName(name), tree |-> tr]
    ELSE DTree_mkdir(tr, name)

OsState_mkdir(tr, cw, name) ==
    IF contains(name, Slash)
    THEN [res |-> SlashInName(name), tree |-> tr]
    ELSE IF cw = <<>>
    THEN DTree_mkdir(tr, name)
    ELSE LET m == subdir_mut(tr, Reverse(cw), name)
         IN  IF m.res.kind # "Ok" THEN [res |-> m.res, tree |-> tr]
             ELSE IF m.r.kind # "Ok" THEN [res |-> Panic, tree |-> tr]
             ELSE [res |-> OkR, tree |-> m.tree]

\* paths that enumerates from the root whatever cwd is
OsState_paths_fromroot(tr, cw) == [res |-> OkR, out |-> DTree_paths(tr)]

OsState_paths(tr, cw) ==
    IF cw = <<>>
    THEN [res |-> OkR, out |-> DTree_paths(tr)]
    ELSE LET d == subdir(tr, Reverse(cw))
         IN  IF d.res.kind = "Ok"
             THEN [res |-> OkR, out |-> DTree_paths(d.node)]
             ELSE [res |-> d.res, out |-> <<>>]

\* ------------------------------------------------------------- state
NoCall == [op |-> "new", path |-> <<>>, name |-> <<>>, res |-> OkR, r |-> OkR,
           out |-> <<>>, dtree0 |-> <<>>, cwd0 |-> <<>>]

Call(op, path, name, res, r, out) ==
    [op |-> op, path |-> path, name |-> name, res |-> res, r |-> r,
     out |-> out, dtree0 |-> dtree, cwd0 |-> cwd]

\* a panic unwinds the caller: nothing is called after it
Running == last.res.kind # "panic"

Init ==
    /\ dtree = DTree_new
    /\ cwd = <<>>
    /\ last = NoCall

\* ---- OsState operations
Chdir(path) ==
    /\ Running
    /\ LET c == OsState_chdir(dtree, cwd, path)
       IN  /\ cwd' = c.cwd
           /\ last' = Call("chdir", path, <<>>, c.res, OkR, <<>>)
    /\ UNCHANGED dtree

\* mkdir that also enters the directory it has made
Mkdir_enter(name) ==
    /\ Running
    /\ LET m == OsState_mkdir(dtree, cwd, name)
       IN  /\ NodeCount(m.tree) <= MaxNodes
           /\ dtree' = m.tree
           /\ cwd' = IF m.res = OkR THEN Append(cwd, name) ELSE cwd
           /\ last' = Call("mkdir", <<>>, name, m.res, OkR, <<>>)

Mkdir(name) ==
    /\ Running
    /\ LET m == OsState_mkdir(dtree, cwd, name)
       IN  /\ NodeCount(m.tree) <= MaxNodes
           /\ dtree' = m.tree
           /\ last' = Call("mkdir", <<>>, name, m.res, OkR, <<>>)
    /\ UNCHANGED cwd

Paths ==
    /\ Running
    /\ LET p == OsState_paths(dtree, cwd)
       IN  last' = Call("paths", <<>>, <<>>, p.res, OkR, p.out)
    /\ UNCHANGED <<dtree, cwd>>

Next ==
    \/ \E path \in PathSet : Chdir(path)
    \/ \E name \in NameSet : Mkdir(name)
    \/ Paths

Spec == Init /\ [][Next]_vars

\* ---- DTree operations on a tree of its own (cwd stays empty)
TreeMkdir(name) ==
    /\ Running
    /\ LET m == DTree_mkdir(dtree, name)
       IN  /\ NodeCount(m.tree) <= MaxNodes
           /\ dtree' = m.tree
           /\ last' = Call("dtree_mkdir", <<>>, name, m.res, OkR, <<>>)
    /\ UNCHANGED cwd

\* dt.with_subdir(path, |d| d.paths())
TreeWithSubdir(path) ==
    /\ Running
    /\ LET w == with_subdir(dtree, path)
       IN  last' = Call("with_subdir", path, <<>>, w.res, OkR,
                        IF w.res.kind = "Ok" THEN DTree_paths(w.node) ELSE <<>>)
    /\ UNCHANGED <<dtree, cwd>>

\* dt.with_subdir_mut(path, |d| d.mkdir(name))
TreeWithSubdirMut(path, name) ==
    /\ Running
    /\ LET w == with_subdir_mut(dtree, path, name)
       IN  /\ NodeCount(w.tree) <= MaxNodes
           /\ dtree' = w.tree
           /\ last' = Call("with_subdir_mut", path, name, w.res, w.r, <<>>)
    /\ UNCHANGED cwd

TreePaths ==
    /\ Running
    /\ last' = Call("dtree_paths", <<>>, <<>>, OkR, OkR, DTree_paths(dtree))
    /\ UNCHANGED <<dtree, cwd>>

TreeNext ==
    \/ \E name \in NameSet : TreeMkdir(name)
    \/ \E path \in PathSet : TreeWithSubdir(path)
    \/ \E path \in PathSet, name \in NameSet : TreeWithSubdirMut(path, name)
    \/ TreePaths

TreeSpec == Init /\ [][TreeNext]_vars

\* ---- the chain scenario of osstate_rand, the chdir doc-test and main:
\* mkdir(n1); chdir([n1]); ... mkdir(nk); chdir([nk]); chdir([]); paths()
ChainMkdir(name) ==
    /\ Running
    /\ last.op = "new" \/ (last.op = "chdir" /\ last.path # <<>>)
    /\ ~contains(name, Slash)
    /\ LET m == OsState_mkdir(dtree, cwd, name)
       IN  /\ NodeCount(m.tree) <= MaxChain
           /\ dtree' = m.tree
           /\ last' = Call("mkdir", <<>>, name, m.res, OkR, <<>>)
    /\ UNCHANGED cwd

ChainChdir ==
    /\ Running
    /\ last.op = "mkdir"
    /\ LET c == OsState_chdir(dtree, cwd, <<last.name>>)
       IN  /\ cwd' = c.cwd
           /\ last' = Call("chdir", <<last.name>>, <<>>, c.res, OkR, <<>>)
    /\ UNCHANGED dtree

ChainReset ==
    /\ Running
    /\ last.op = "chdir" /\ last.path # <<>>
    /\ LET c == OsState_chdir(dtree, cwd, <<>>)
       IN  /\ cwd' = c.cwd
           /\ last' = Call("chdir", <<>>, <<>>, c.res, OkR, <<>>)
    /\ UNCHANGED dtree

ChainPaths ==
    /\ Running
    /\ last.op = "chdir" /\ last.path = <<>>
    /\ LET p == OsState_paths(dtree, cwd)
       IN  last' = Call("paths", <<>>, <<>>, p.res, OkR, p.out)
    /\ UNCHANGED <<dtree, cwd>>

ChainNext ==
    \/ \E name \in NameSet : ChainMkdir(name)
    \/ ChainChdir
    \/ ChainReset
    \/ ChainPaths

ChainSpec == Init /\ [][ChainNext]_vars

\* ---- the tree of dtree_tests::dtree_static: a, z, a/b, a/c, a/c/d
StaticTree ==
    LET t1 == DTree_mkdir(DTree_new, <<"a">>).tree
        t2 == DTree_mkdir(t1, <<"z">>).tree
        t3 == with_subdir_mut(t2, << <<"a">> >>, <<"b">>).tree
        t4 == with_subdir_mut(t3, << <<"a">> >>, <<"c">>).tree
    IN  with_subdir_mut(t4, << <<"a">>, <<"c">> >>, <<"d">>).tree

\* ------------------------------------------------- vocabulary of the claims
\* p, read front to back, names a chain of children starting at t
RECURSIVE Exists(_, _)
Exists(t, p) ==
    \/ p = <<>>
    \/ /\ p # <<>>
       /\ \E i \in 1..Len(t) : t[i].name = Head(p) /\ Exists(t[i].subdir, Tail(p))

\* the tree that p denotes below t (when Exists(t, p))
RECURSIVE NodeAt(_, _)
NodeAt(t, p) ==
    IF p = <<>> THEN t
    ELSE LET i == CHOOSE j \in 1..Len(t) : t[j].name = Head(p)
         IN  NodeAt(t[i].subdir, Tail(p))

\* every path that denotes a node of t, the empty path included
RECURSIVE AllPaths(_)
AllPaths(t) ==
    { <<>> } \cup UNION { { <<t[i].name>> \o q : q \in AllPaths(t[i].subdir) } : i \in 1..Len(t) }

HasChild(t, name) == \E i \in 1..Len(t) : t[i].name = name

\* the leftmost component of p that is absent at its level
FirstMissing(t, p) ==
    LET k == MinOf({ j \in 1..Len(p) : ~Exists(t, SubSeq(p, 1, j)) })
    IN  p[k]

IsErr(res) == res.kind \in {"SlashInName", "DirExists", "InvalidChild"}

LegalNames == { n \in NameSet : ~contains(n, Slash) }

\* ------------------------------------------------------------------ C1
\* C1: a change_directory(p) with non-empty p such that cwd followed by p
\* does not resolve returns an error, and leaves cwd equal to its value
\* before the call and the tree unchanged.
C1_FailedChdirKeepsCwd ==
    (/\ last.op = "chdir"
     /\ last.path # <<>>
     /\ ~Exists(last.dtree0, last.cwd0 \o last.path))
    => (/\ IsErr(last.res)
        /\ cwd = last.cwd0
        /\ dtree = last.dtree0)

\* a failing chdir from below the root whose first component does exist
C1_Witness ==
    /\ last.op = "chdir"
    /\ Len(last.path) = 2
    /\ last.cwd0 # <<>>
    /\ Exists(last.dtree0, last.cwd0 \o <<last.path[1]>>)
    /\ ~Exists(last.dtree0, last.cwd0 \o last.path)
    /\ IsErr(last.res)

\* ------------------------------------------------------------------ C2
\* C2: in every state reachable by create_directory, change_directory and
\* list_paths calls, cwd denotes a path that exists in the tree: resolving
\* it from the root succeeds.
C2_CwdResolves ==
    /\ subdir(dtree, Reverse(cwd)).res.kind = "Ok"
    /\ Exists(dtree, cwd)

\* two levels deep, right after a failed change_directory
C2_Witness ==
    /\ Len(cwd) >= 2
    /\ last.op = "chdir"
    /\ IsErr(last.res)

\* ------------------------------------------------------------------ C3
\* C3: create_directory(name) with a separator-free name that is already a
\* child of the directory cwd denotes returns DirExists(name) as an error
\* value, at the root and at any deeper cwd, and changes neither tree nor cwd.
C3_DirExistsReturned ==
    (/\ last.op = "mkdir"
     /\ ~contains(last.name, Slash)
     /\ HasChild(NodeAt(last.dtree0, last.cwd0), last.name))
    => (/\ last.res = DirExists(last.name)
        /\ dtree = last.dtree0
        /\ cwd = last.cwd0)

\* ------------------------------------------------------------------ C4
RECURSIVE JoinNames(_)
JoinNames(p) == IF p = <<>> THEN <<>> ELSE Head(p) \o <<Slash>> \o JoinNames(Tail(p))

\* '/' followed by the names of p, each followed by '/'
Fmt(p) == <<Slash>> \o JoinNames(p)

\* the paths from t down to its leaves; t itself when it has no children
LeafPaths(t) == { p \in AllPaths(t) : NodeAt(t, p) = <<>> }

Range(q) == { q[k] : k \in 1..Len(q) }

IsEnumeration == last.op \in {"dtree_paths", "with_subdir", "paths"} /\ last.res.kind = "Ok"

\* the node the last enumeration started from
EnumRoot == NodeAt(last.dtree0, last.cwd0 \o last.path)

\* C4: enumerate_leaf_paths of any node of a tree built by create_child
\* returns exactly one string per leaf reachable from that node, each string
\* being '/' followed by the names from the node down to the leaf, each name
\* followed by '/'.
C4_OneStringPerLeaf ==
    IsEnumeration
    => (/\ Len(last.out) = Cardinality(LeafPaths(EnumRoot))
        /\ Range(last.out) = { Fmt(p) : p \in LeafPaths(EnumRoot) })

\* ------------------------------------------------------------------ C5
RECURSIVE NoDup(_)
NoDup(t) ==
    /\ \A i, j \in 1..Len(t) : t[i].name = t[j].name => i = j
    /\ \A i \in 1..Len(t) : NoDup(t[i].subdir)

IsCreateChild ==
    \/ last.op = "dtree_mkdir"
    \/ last.op = "with_subdir_mut" /\ last.res.kind = "Ok"

\* what create_child returned in the last call
CreateResult == IF last.op = "with_subdir_mut" THEN last.r ELSE last.res

\* C5: no node ever has two children of the same name; create_child(x) on a
\* node without a child x succeeds, and a create_child(x) right after it on
\* the same node fails with DirExists and adds no node.
C5_NoDuplicateSiblings ==
    /\ NoDup(dtree)
    /\ \A p \in AllPaths(dtree), x \in LegalNames :
         LET n  == NodeAt(dtree, p)
             m1 == DTree_mkdir(n, x)
             m2 == DTree_mkdir(m1.tree, x)
         IN  ~HasChild(n, x)
             => (/\ m1.res = OkR
                 /\ Len(m1.tree) = Len(n) + 1
                 /\ m2.res = DirExists(x)
                 /\ m2.tree = m1.tree)
    /\ (IsCreateChild /\ HasChild(NodeAt(last.dtree0, last.path), last.name))
       => (CreateResult = DirExists(last.name) /\ dtree = last.dtree0)

\* a second create_child of the same name on a node below the root
C5_Witness ==
    /\ last.op = "with_subdir_mut"
    /\ last.path # <<>>
    /\ last.res = OkR
    /\ last.r = DirExists(last.name)
    /\ HasChild(NodeAt(dtree, last.path), last.name)

\* ------------------------------------------------------------------ C6
\* C6: for a name containing '/', DTree::mkdir (on any node) and
\* OsState::mkdir (at any cwd) fail with SlashInName and add no node, so no
\* name in the tree ever contains '/'.
C6_SlashRejected ==
    /\ (last.op = "mkdir" /\ contains(last.name, Slash))
       => (/\ last.res = SlashInName(last.name)
           /\ dtree = last.dtree0
           /\ NodeCount(dtree) = NodeCount(last.dtree0))
    /\ \A p \in AllPaths(dtree), x \in NameSet :
         contains(x, Slash)
         => DTree_mkdir(NodeAt(dtree, p), x)
              = [res |-> SlashInName(x), tree |-> NodeAt(dtree, p)]
    /\ \A p \in AllPaths(dtree) : \A k \in 1..Len(p) : ~contains(p[k], Slash)

\* create_directory of a name with a separator, below the root
C6_Witness ==
    /\ last.op = "mkdir"
    /\ contains(last.name, Slash)
    /\ last.cwd0 # <<>>
    /\ last.res.kind = "SlashInName"

\* ------------------------------------------------------------------ C7
\* C7 (as stated): with_subdir and with_subdir_mut called with an empty path
\* succeed and apply the visitor to the node they were called on.
C7_EmptyPathResolvesToSelf ==
    /\ (last.op = "with_subdir" /\ last.path = <<>>)
       => (last.res = OkR /\ last.out = DTree_paths(last.dtree0))
    /\ (last.op = "with_subdir_mut" /\ last.path = <<>>)
       => (/\ last.res = OkR
           /\ last.r = DTree_mkdir(last.dtree0, last.name).res
           /\ dtree = DTree_mkdir(last.dtree0, last.name).tree)

\* C7 (amended): with_subdir and with_subdir_mut called with an empty path
\* fail with InvalidChild (carrying "" and "empty path") without applying the
\* visitor or changing the tree; only the recursive helpers subdir and
\* subdir_mut, given an empty path, succeed and apply the visitor to the
\* node they were called on.
C7_EmptyPathRejected ==
    /\ (last.op = "with_subdir" /\ last.path = <<>>)
       => (/\ last.res = InvalidChild(Str_empty)
           /\ last.out = <<>>
           /\ dtree = last.dtree0)
    /\ (last.op = "with_subdir_mut" /\ last.path = <<>>)
       => (/\ last.res = InvalidChild(Str_empty_path)
           /\ dtree = last.dtree0)
    /\ \A p \in AllPaths(dtree) :
         LET n == NodeAt(dtree, p)
         IN  /\ subdir(n, <<>>) = [res |-> OkR, node |-> n]
             /\ \A x \in NameSet :
                  LET m == DTree_mkdir(n, x)
                  IN  subdir_mut(n, <<>>, x) = [res |-> OkR, r |-> m.res, tree |-> m.tree]

\* with_subdir with an empty path on a tree that has entries
C7_Witness ==
    /\ last.op = "with_subdir"
    /\ last.path = <<>>
    /\ dtree # <<>>
    /\ last.res.kind = "InvalidChild"

\* ------------------------------------------------------------------ C8
\* C8: a node with no children is itself a leaf and contributes exactly one
\* path: enumerating from a childless node (the root of a fresh tree, or the
\* empty directory cwd denotes) returns exactly one string, and a childless
\* named child contributes its own name followed by '/'.
C8_ChildlessNodeOnePath ==
    /\ (IsEnumeration /\ EnumRoot = <<>>) => Len(last.out) = 1
    /\ \A p \in AllPaths(dtree) :
         (p # <<>> /\ NodeAt(dtree, p) = <<>>)
         => DEnt_paths([name |-> p[Len(p)], subdir |-> <<>>]) = << p[Len(p)] \o <<Slash>> >>

\* ------------------------------------------------------------------ C9
\* C9: when change_directory(p) fails because a component of p is absent,
\* the error returned is the InvalidChild of the nested traversal, carrying
\* the first missing component of p.
C9_ChdirReportsMissingName ==
    (/\ last.op = "chdir"
     /\ last.path # <<>>
     /\ ~Exists(last.dtree0, last.cwd0 \o last.path))
    => last.res = InvalidChild(FirstMissing(NodeAt(last.dtree0, last.cwd0), last.path))

\* ------------------------------------------------------------------ C10
\* C10: whatever cwd is, change_directory([]) succeeds, leaves cwd empty and
\* does not change the tree.
C10_ChdirEmptyResets ==
    /\ (last.op = "chdir" /\ last.path = <<>>)
       => (last.res = OkR /\ cwd = <<>> /\ dtree = last.dtree0)
    /\ OsState_chdir(dtree, cwd, <<>>) = [res |-> OkR, cwd |-> <<>>]

\* change_directory([]) from two levels down
C10_Witness ==
    /\ last.op = "chdir"
    /\ last.path = <<>>
    /\ Len(last.cwd0) >= 2
    /\ cwd = <<>>

\* ------------------------------------------------------------------ C11
\* C11: from a fresh Session, mkdir(ni) then chdir([ni]) for separator-free
\* names n1..nk (k >= 1), then chdir([]): every call succeeds and paths()
\* returns exactly the one-element sequence ["/n1/n2/.../nk/"].
C11_ChainListsOnePath ==
    /\ last.res = OkR
    /\ (last.op = "chdir" /\ last.path # <<>>) => cwd = Append(last.cwd0, last.path[1])
    /\ (last.op = "chdir" /\ last.path = <<>>)
       => (/\ cwd = <<>>
           /\ LeafPaths(dtree) = { last.cwd0 }
           /\ OsState_paths(dtree, cwd) = [res |-> OkR, out |-> << Fmt(last.cwd0) >>])
    /\ last.op = "paths"
       => (/\ Len(last.out) = 1
           /\ \E n \in LeafPaths(dtree) :
                Len(n) = NodeCount(dtree) /\ last.out = << Fmt(n) >>)

\* paths() after a chain of three directories, one name used twice
C11_Witness ==
    /\ last.op = "paths"
    /\ NodeCount(dtree) = 3
    /\ last.out = << <<"/", "a", "/", "b", "/", "a", "/">> >>

\* ------------------------------------------------------------------ C12
\* C12: for a non-empty path p such that cwd followed by p resolves,
\* change_directory(p) succeeds and the new cwd is the old cwd with p
\* appended; p is read relative to cwd, never from the root: a p that exists
\* from the root but not under cwd fails.
C12_ChdirIsRelative ==
    /\ (/\ last.op = "chdir"
        /\ last.path # <<>>
        /\ Exists(last.dtree0, last.cwd0 \o last.path))
       => (/\ last.res = OkR
           /\ cwd = last.cwd0 \o last.path
           /\ dtree = last.dtree0)
    /\ (/\ last.op = "chdir"
        /\ last.path # <<>>
        /\ Exists(last.dtree0, last.path)
        /\ ~Exists(last.dtree0, last.cwd0 \o last.path))
       => (IsErr(last.res) /\ cwd = last.cwd0)

\* below the root, a path that exists from the root only is refused
C12_Witness ==
    /\ last.op = "chdir"
    /\ last.path # <<>>
    /\ last.cwd0 # <<>>
    /\ Exists(last.dtree0, last.path)
    /\ ~Exists(last.dtree0, last.cwd0 \o last.path)
    /\ IsErr(last.res)
    /\ cwd = last.cwd0

\* ------------------------------------------------------------------ C13
\* every non-empty prefix of p names an existing chain of children of t
PrefixesExist(t, p) == \A k \in 1..Len(p) : Exists(t, SubSeq(p, 1, k))

\* C13: resolving a non-empty path consumes it left to right from the
\* starting node: it succeeds, applying the visitor to the node reached, iff
\* every prefix of the path names an existing chain of children; otherwise
\* it fails with InvalidChild carrying the leftmost component absent at its
\* level, whatever later components exist.
C13_LeftToRightResolution ==
    /\ (last.op = "with_subdir" /\ last.path # <<>>)
       => IF PrefixesExist(last.dtree0, last.path)
          THEN /\ last.res = OkR
               /\ last.out = DTree_paths(NodeAt(last.dtree0, last.path))
          ELSE /\ last.res = InvalidChild(FirstMissing(last.dtree0, last.path))
               /\ last.out = <<>>
    /\ (last.op = "with_subdir_mut" /\ last.path # <<>>)
       => IF PrefixesExist(last.dtree0, last.path)
          THEN LET m == DTree_mkdir(NodeAt(last.dtree0, last.path), last.name)
               IN  /\ last.res = OkR
                   /\ last.r = m.res
                   /\ NodeAt(dtree, last.path) = m.tree
          ELSE /\ last.res = InvalidChild(FirstMissing(last.dtree0, last.path))
               /\ dtree = last.dtree0

\* the first component is absent although the second exists at the root and
\* the path read right to left would resolve
C13_Witness ==
    /\ last.op = "with_subdir"
    /\ Len(last.path) = 2
    /\ ~HasChild(last.dtree0, last.path[1])
    /\ Exists(last.dtree0, Reverse(last.path))
    /\ last.res = InvalidChild(last.path[1])

\* ------------------------------------------------------------------ C14
\* s begins with the characters of q
StartsWith(s, q) == Len(q) <= Len(s) /\ SubSeq(s, 1, Len(q)) = q

\* C14: list_paths() succeeds and returns exactly the enumeration of the
\* node cwd denotes: the paths are relative to the current directory (each
\* begins with '/' and a child of the cwd node, and is the formatted path
\* from the cwd node to a leaf, without the cwd components); with an empty
\* cwd it is the root's enumeration.
C14_ListPathsRelativeToCwd ==
    last.op = "paths"
    => LET node == NodeAt(last.dtree0, last.cwd0)
       IN  /\ last.res = OkR
           /\ last.out = DTree_paths(node)
           /\ \A k \in 1..Len(last.out) :
                /\ \E i \in 1..Len(node) :
                     StartsWith(last.out[k], <<Slash>> \o node[i].name \o <<Slash>>)
                /\ \E q \in LeafPaths(node) :
                     /\ last.out[k] = Fmt(q)
                     /\ Exists(last.dtree0, last.cwd0 \o q)
           /\ last.cwd0 = <<>> => last.out = DTree_paths(last.dtree0)
           /\ dtree = last.dtree0
           /\ cwd = last.cwd0

\* listing a directory below the root that has an entry
C14_Witness ==
    /\ last.op = "paths"
    /\ last.cwd0 # <<>>
    /\ last.out # <<>>
    /\ last.out # DTree_paths(dtree)

\* ------------------------------------------------------------------ C15
\* C15: create_directory, successful or not, leaves cwd unchanged;
\* change_directory, successful or not, and list_paths leave the tree
\* unchanged; list_paths leaves cwd unchanged.  So cwd changes only in
\* change_directory steps and the tree only in create_directory steps.
C15_FrameOfOperations ==
    [][ /\ last'.op = "mkdir" => cwd' = cwd
        /\ last'.op = "chdir" => dtree' = dtree
        /\ last'.op = "paths" => (dtree' = dtree /\ cwd' = cwd)
        /\ cwd' # cwd => last'.op = "chdir"
        /\ dtree' # dtree => last'.op = "mkdir" ]_vars

\* a successful create_directory below the root
C15_Witness ==
    /\ last.op = "mkdir"
    /\ last.res = OkR
    /\ dtree # last.dtree0
    /\ cwd # <<>>
    /\ cwd = last.cwd0

\* ------------------------------------------------------------------ C16
ChildNames(t) == [i \in 1..Len(t) |-> t[i].name]

IsPrefix(s, q) == Len(s) <= Len(q) /\ SubSeq(q, 1, Len(s)) = s

\* t1 is t0 with one childless node called name added as the last child of
\* the node target denotes, and nothing else changed
AddedOneNode(t0, t1, target, name) ==
    /\ Append(target, name) \notin AllPaths(t0)
    /\ AllPaths(t1) = AllPaths(t0) \cup { Append(target, name) }
    /\ NodeCount(t1) = NodeCount(t0) + 1
    /\ NodeAt(t1, Append(target, name)) = <<>>
    /\ \A p \in AllPaths(t0) :
         ChildNames(NodeAt(t1, p))
           = IF p = target THEN Append(ChildNames(NodeAt(t0, p)), name)
                           ELSE ChildNames(NodeAt(t0, p))

\* the last call was a create (create_directory or create_child) that succeeded
CreateSucceeded ==
    \/ last.op \in {"mkdir", "dtree_mkdir"} /\ last.res = OkR
    \/ last.op = "with_subdir_mut" /\ last.res = OkR /\ last.r = OkR

\* C16: a successful create adds exactly one node, with the given name and
\* no children, as a child of the target node (for create_directory the node
\* cwd denotes) and changes nothing else: every path that resolved before
\* still resolves to a node with the same children, so the tree never shrinks.
C16_CreateAddsOneNode ==
    /\ CreateSucceeded
       => AddedOneNode(last.dtree0, dtree, last.cwd0 \o last.path, last.name)
    /\ ~CreateSucceeded => dtree = last.dtree0
    /\ \A p \in AllPaths(last.dtree0) :
         /\ Exists(dtree, p)
         /\ IsPrefix(ChildNames(NodeAt(last.dtree0, p)), ChildNames(NodeAt(dtree, p)))

\* create_directory below the root, in a tree that has another branch
C16_Witness ==
    /\ last.op = "mkdir"
    /\ last.res = OkR
    /\ last.cwd0 # <<>>
    /\ Len(dtree) >= 2
    /\ NodeCount(dtree) = NodeCount(last.dtree0) + 1

\* ------------------------------------------------------------------ C17
\* C17: read-only resolution (with_subdir) and mutable resolution
\* (with_subdir_mut) have the same outcome for every tree and every path,
\* the empty path included: both reach the same node, or both fail with the
\* same error kind carrying the same name.
C17_ModesAgree ==
    /\ last.op = "with_subdir"
       => \A x \in NameSet :
            LET mu == with_subdir_mut(last.dtree0, last.path, x)
            IN  /\ mu.res = last.res
                /\ last.res = OkR
                   => LET m == DTree_mkdir(NodeAt(last.dtree0, last.path), x)
                      IN  /\ last.out = DTree_paths(NodeAt(last.dtree0, last.path))
                          /\ mu.r = m.res
                          /\ NodeAt(mu.tree, last.path) = m.tree
    /\ last.op = "with_subdir_mut"
       => LET ro == with_subdir(last.dtree0, last.path)
          IN  /\ ro.res = last.res
              /\ last.res = OkR
                 => LET m == DTree_mkdir(ro.node, last.name)
                    IN  last.r = m.res /\ NodeAt(dtree, last.path) = m.tree

\* ------------------------------------------------------------------ C18
\* C18: change_directory with an empty path is the only step that can
\* shorten or reset cwd: after any other step (create_directory, list_paths,
\* change_directory with a non-empty path, successful or not) the previous
\* cwd is a prefix of the new cwd.
C18_OnlyEmptyChdirShortensCwd ==
    [][ ~(last'.op = "chdir" /\ last'.path = <<>>) => IsPrefix(cwd, cwd') ]_vars

\* a failed change_directory with a non-empty path, two levels down
C18_Witness ==
    /\ last.op = "chdir"
    /\ last.path # <<>>
    /\ IsErr(last.res)
    /\ Len(last.cwd0) >= 2
    /\ cwd = last.cwd0

\* ------------------------------------------------------------------ C19
\* the leaves strictly below t as name sequences, depth first, the children
\* of every node in the order they stand in the Vec
RECURSIVE DfsFrom(_, _, _)
DfsFrom(t, prefix, i) ==
    IF i > Len(t) THEN <<>>
    ELSE (IF t[i].subdir = <<>>
          THEN << Append(prefix, t[i].name) >>
          ELSE DfsFrom(t[i].subdir, Append(prefix, t[i].name), 1))
         \o DfsFrom(t, prefix, i + 1)

DfsLeaves(t) == DfsFrom(t, <<>>, 1)

FmtAll(ps) == [k \in 1..Len(ps) |-> Fmt(ps[k])]

TwoCalls(tr, cw, p, q) ==
    LET a == OsState_chdir(tr, cw, p)
        b == OsState_chdir(tr, a.cwd, q)
    IN  [first |-> a.res, second |-> b.res, cwd |-> b.cwd]

\* chdir(p \o q) against chdir(p); chdir(q), both from cwd cw in tree tr,
\* given the result and the cwd the single call produced
SplitAgrees(tr, cw, p, q, res1, cwd1) ==
    LET two == TwoCalls(tr, cw, p, q)
    IN  /\ (res1 = OkR) <=> (two.first = OkR /\ two.second = OkR)
        /\ res1 = OkR => (cwd1 = two.cwd /\ cwd1 = cw \o p \o q)
        /\ (two.first = OkR /\ two.second # OkR)
           => (IsErr(res1) /\ cwd1 = cw /\ two.cwd = cw \o p)

\* C20: for non-empty p and q, change_directory(p ++ q) succeeds iff
\* change_directory(p) followed by change_directory(q) both succeed, and
\* then both routes end with cwd = old cwd ++ p ++ q and the same tree; when
\* p resolves but q does not, the single call leaves cwd at its old value
\* and the two calls leave cwd = old cwd ++ p.
C20_ChdirComposes ==
    last.op = "chdir"
    => /\ dtree = last.dtree0
       /\ \A k \in 1..(Len(last.path) - 1) :
            SplitAgrees(last.dtree0, last.cwd0,
                        SubSeq(last.path, 1, k), SubSeq(last.path, k + 1, Len(last.path)),
                        last.res, cwd)

\* a two-component change_directory below the root that succeeds
C20_Witness ==
    /\ last.op = "chdir"
    /\ Len(last.path) = 2
    /\ last.cwd0 # <<>>
    /\ last.res = OkR
    /\ cwd = last.cwd0 \o last.path

====
